---- MODULE Spec2Model ----
(***************************************************************************)
(* State-machine model of the nestjs-quickstarter authentication backend:  *)
(* the MongoDB users collection, the Redis cache in front of it, and the   *)
(* request handlers of AuthService / UserService / UserBusinessService.    *)
(* Time is counted in seconds.                                             *)
(***************************************************************************)
EXTENDS Integers, FiniteSets, Sequences, TLC

\* ---------------------------------------------------------------- bounds
MaxUsers == 2
MaxSteps == 3
MaxTicks == 1
MaxHeld == 1
MaxPending == 2
MaxResets == 2
MaxRequests == 5
MaxLookups == 1

\* ------------------------------------------------------ program constants
JwtExpiresIn == 900
JwtRefreshExpiresIn == 604800
USER_CACHE_TTL == 600
AUTH_CACHE_TTL == 300
ResetTokenLifetime == 3600

\* ------------------------------------------------------------ input sets
Ids == 1..MaxUsers
EmailInputs == {"a@x", "A@x", "b@x"}
Usernames == {"u1"}
NoName == "none"
Passwords == {"p1", "p2"}
UserRole == {"USER", "ADMIN", "MODERATOR"}
AuthProvider == {"LOCAL", "GOOGLE", "GITHUB"}
OAuthProviders == {"GOOGLE"}
ProviderIds == {"g1"}
NoProviderId == "none"
NoEmail == "none"
AttackerKey == "kx"

\* String.prototype.toLowerCase on the e-mail spellings of the model
toLowerCase(e) == IF e = "A@x" THEN "a@x" ELSE e

\* ------------------------------------------------------------- variables
VARIABLES
  users,        \* MongoDB users collection: _id -> document
  nextId,       \* next fresh ObjectId
  cacheUser,    \* Redis entries  user:<id>
  cacheEmail,   \* Redis entries  auth:email:<email as typed>
  cacheUsername,\* Redis entries  auth:username:<username>
  pending,      \* create requests between their checks and their save()
  held,         \* token pairs clients received and still hold
  res,          \* response sent by the last step (op "none": no response)
  now,          \* wall clock (seconds)
  ticks,        \* number of clock advances so far
  steps,        \* number of requests so far that changed stored state
  env,          \* process environment (JWT secrets)
  oauthFirst,   \* history: user returned by the first successful OAuth
                \* login of each (provider, providerId)
  resetIssued,  \* history: the reset tokens forgotPassword generated, in
                \* order, with the user and the time of each
  throttlerStorage, \* ThrottlerStorageService: key -> times of the live hits
  requestLog,   \* history: every request the throttler guard has seen
  lookups       \* user lookups between their database read and their
                \* cache write

vars == <<users, nextId, cacheUser, cacheEmail, cacheUsername, pending,
          held, res, now, ticks, steps, env, oauthFirst, resetIssued,
          throttlerStorage, requestLog, lookups>>

\* the state of the throttler guard and of the lookups in flight, which the
\* request handlers above them do not touch
sideVars == <<throttlerStorage, requestLog, lookups>>

\* ------------------------------------------------------- partial functions
Put(f, k, v) == [x \in (DOMAIN f) \cup {k} |-> IF x = k THEN v ELSE f[x]]
Del(f, k) == [x \in (DOMAIN f) \ {k} |-> f[x]]
Empty == [x \in {} |-> 0]

\* ------------------------------------------------------------- passwords
\* argon2.hash: a salted hash <<password, salt>>; every call draws a new salt
argon2Hash(p, salt) == <<p, salt>>
\* a salt that differs from the one of the hash being replaced
FreshSalt(old) == IF old = <<>> THEN 1 ELSE old[2] + 1
\* argon2.verify(hash, plain)
argon2Verify(h, p) == h # <<>> /\ h[1] = p

verifyPassword(plain, hashed) == argon2Verify(hashed, plain)

\* ------------------------------------------------------------------ JWT
\* jwtService.signAsync(payload, {secret, expiresIn})
Sign(payload, secret, expiresIn, t) ==
  LET body == [sub |-> payload.sub, email |-> payload.email,
               role |-> payload.role, exp |-> t + expiresIn]
  IN  [body |-> body, sig |-> <<secret, body>>]

\* verification with ignoreExpiration: only the signature is looked at
JwtVerifyIgnoreExpiration(token, secret, t) ==
  token.sig = <<secret, token.body>>

\* jwtService.verify(token, {secret}): signature over the body, then expiry
JwtVerifyOk(token, secret, t) ==
  /\ token.sig = <<secret, token.body>>
  /\ t < token.body.exp

\* jwt decode: the payload a token carries
Decode(token) == token.body

\* configuration.ts: the 'jwt' section of the loaded configuration
ConfigJwtSecret(e) == IF e.JWT_SECRET # "" THEN e.JWT_SECRET ELSE "your-secret-key"

ConfigJwtRefreshSecret(e) ==
  IF e.JWT_REFRESH_SECRET # "" THEN e.JWT_REFRESH_SECRET ELSE "refresh-secret-key"

\* token generation that signs the default role instead of the user's
generateTokensDefaultRole(user, e, t) ==
  LET payload == [sub |-> user._id, email |-> user.email, role |-> "USER"]
  IN  [accessToken  |-> Sign(payload, ConfigJwtSecret(e), JwtExpiresIn, t),
       refreshToken |-> Sign(payload, ConfigJwtRefreshSecret(e),
                             JwtRefreshExpiresIn, t)]

\* AuthService.generateTokens(user) at time t
generateTokens(user, e, t) ==
  LET payload == [sub |-> user._id, email |-> user.email,
                  role |-> IF user.role # "" THEN user.role ELSE "USER"]
  IN  [accessToken  |-> Sign(payload, ConfigJwtSecret(e), JwtExpiresIn, t),
       refreshToken |-> Sign(payload, ConfigJwtRefreshSecret(e),
                             JwtRefreshExpiresIn, t)]

\* ------------------------------------------------------------- database
\* a stored document together with its _id, as a query returns it
Doc(db, id) == [_id |-> id] @@ db[id]

\* userModel.findOne({ email }): the schema's lowercase setter is applied
\* to the filter value
findIdsByEmail(db, email) ==
  {i \in DOMAIN db : db[i].email = toLowerCase(email)}

findIdsByUsername(db, username) ==
  {i \in DOMAIN db : db[i].username = username}

findIdsByProvider(db, provider, providerId) ==
  {i \in DOMAIN db : db[i].provider = provider /\ db[i].providerId = providerId}

\* a collection without the unique indexes: every document may be stored
UniqueIndexDropped(db, id, d) == TRUE

\* unique index on email, unique sparse index on username (user.schema.ts):
\* may document d be stored under _id id?
UniqueIndexOk(db, id, d) ==
  /\ \A i \in (DOMAIN db) \ {id} : db[i].email # d.email
  /\ d.username # NoName =>
       \A i \in (DOMAIN db) \ {id} : db[i].username # d.username

\* ------------------------------------------------------------------ cache
\* UserCacheService.cacheUserWithLookups(user)
cacheUserWithLookups(c, user) ==
  [user  |-> Put(c.user, user._id, user),
   email |-> Put(c.email, user.email, user),
   username |-> IF user.username # NoName
                THEN Put(c.username, user.username, user) ELSE c.username]

\* UserCacheService.invalidateAllUserCaches(user)
invalidateAllUserCaches(c, user) ==
  [user  |-> Del(c.user, user._id),
   email |-> Del(c.email, user.email),
   username |-> IF user.username # NoName
                THEN Del(c.username, user.username) ELSE c.username]

\* an invalidation that leaves the user:<id> entry in place
invalidateUserCacheSkipped(c, id) == c

\* UserCacheService.invalidateUserCache(id)
invalidateUserCache(c, id) ==
  [user |-> Del(c.user, id), email |-> c.email, username |-> c.username]

Cache == [user |-> cacheUser, email |-> cacheEmail, username |-> cacheUsername]

SetCache(c) ==
  /\ cacheUser' = c.user
  /\ cacheEmail' = c.email
  /\ cacheUsername' = c.username

\* ------------------------------------------------- UserService (orchestrator)
\* Lookups return <<>> for null or <<user>>; fromCache tells whether the value
\* is the JSON copy read back from Redis (a plain object, no document methods)
\* or a hydrated Mongoose document.

\* UserService.findOne(id): cache first, then UserCrudService.findOne
findOne(db, c, id) ==
  IF id \in DOMAIN c.user
  THEN [user |-> <<c.user[id]>>, fromCache |-> TRUE, cache |-> c]
  ELSE IF id \in DOMAIN db
       THEN [user |-> <<Doc(db, id)>>, fromCache |-> FALSE,
             cache |-> cacheUserWithLookups(c, Doc(db, id))]
       ELSE [user |-> <<>>, fromCache |-> FALSE, cache |-> c]

\* UserService.findByEmail(email): cache first (key: the e-mail as given),
\* then UserQueryService.findByEmail (email.toLowerCase())
findByEmail(db, c, email) ==
  IF email \in DOMAIN c.email
  THEN [user |-> <<c.email[email]>>, fromCache |-> TRUE, cache |-> c]
  ELSE LET ids == findIdsByEmail(db, toLowerCase(email))
       IN  IF ids # {}
           THEN LET u == Doc(db, CHOOSE i \in ids : TRUE)
                IN  [user |-> <<u>>, fromCache |-> FALSE,
                     cache |-> [c EXCEPT !.email = Put(c.email, email, u)]]
           ELSE [user |-> <<>>, fromCache |-> FALSE, cache |-> c]

\* UserPasswordService.updateLastLogin + UserService.updateLastLogin:
\* findByIdAndUpdate (timestamps: true also sets updatedAt), then the
\* user:<id> entry is invalidated
updateLastLoginDb(db, id, t) ==
  IF id \in DOMAIN db
  THEN [db EXCEPT ![id].lastLogin = t, ![id].updatedAt = t]
  ELSE db

\* UserPasswordService.updatePassword: hash, findByIdAndUpdate (the two
\* reset-token keys of the update are undefined, which Mongoose strips)
updatePasswordDb(db, id, newPassword, t) ==
  IF id \in DOMAIN db
  THEN [db EXCEPT ![id].password =
                     argon2Hash(newPassword, FreshSalt(db[id].password)),
                  ![id].updatedAt = t]
  ELSE db

\* the value of a document's passwordResetToken while none is stored
NoResetToken == 0

\* AuthService.generateRandomToken(): a string no earlier call returned
generateRandomToken(issued) == Len(issued) + 1

\* UserPasswordService.setPasswordResetToken: findByIdAndUpdate
setPasswordResetTokenDb(db, id, token, expires, t) ==
  IF id \in DOMAIN db
  THEN [db EXCEPT ![id].passwordResetToken = token,
                  ![id].passwordResetExpires = expires,
                  ![id].updatedAt = t]
  ELSE db

\* UserPasswordService.clearPasswordResetToken: findByIdAndUpdate with both
\* keys undefined; Mongoose (v8) strips undefined keys from an update, so
\* only the timestamp is written
clearPasswordResetTokenDb(db, id, t) ==
  IF id \in DOMAIN db THEN [db EXCEPT ![id].updatedAt = t] ELSE db

\* a token lookup that does not look at the expiry date
findByPasswordResetTokenAnyAge(db, token, t) ==
  {i \in DOMAIN db : db[i].passwordResetToken = token}

\* UserQueryService.findByPasswordResetToken(token) at time t: the documents
\* findOne chooses from
findByPasswordResetToken(db, token, t) ==
  {i \in DOMAIN db : /\ db[i].passwordResetToken = token
                     /\ db[i].passwordResetExpires > t}

\* UserCrudService.create, the part before save(): "ok" or the conflict found
NoPassword == "none"
NoRole == "none"
NoProvider == "none"
crudCreateCheck(db, input) ==
  IF findIdsByEmail(db, input.email) # {} THEN "Email already exists"
  ELSE IF input.username # NoName /\ findIdsByUsername(db, input.username) # {}
       THEN "Username already exists"
       ELSE "ok"

\* the document new this.userModel({...input, password: hashed}) saves:
\* schema setters (lowercase e-mail) and schema defaults applied
NewDocument(input, t) ==
  [email |-> toLowerCase(input.email),
   username |-> input.username,
   password |-> IF input.password # NoPassword
                THEN argon2Hash(input.password, FreshSalt(<<>>)) ELSE <<>>,
   role |-> IF input.role # NoRole THEN input.role ELSE "USER",
   provider |-> IF input.provider # NoProvider THEN input.provider ELSE "LOCAL",
   providerId |-> input.providerId,
   isActive |-> TRUE,
   passwordResetToken |-> NoResetToken,
   passwordResetExpires |-> 0,
   lastLogin |-> -1,
   updatedAt |-> t]

\* findByIdAndUpdate(id, patch): the fields of the patch overwrite the
\* document's, timestamps: true sets updatedAt
ApplyPatch(d, patch, t) ==
  [f \in DOMAIN d |->
     IF f = "updatedAt" THEN t
     ELSE IF f \in DOMAIN patch THEN patch[f] ELSE d[f]]

\* ------------------------------------------------------------- responses
NoTokens == <<>>
Response(op, status, arg, uid, tokens) ==
  [op |-> op, status |-> status, arg |-> arg, uid |-> uid, tokens |-> tokens]

NoResponse == Response("none", "none", <<>>, 0, NoTokens)

\* the client keeps the token pair of a response while it has room for it
Keep(tokens) ==
  IF tokens # NoTokens /\ Cardinality(held) < MaxHeld
  THEN held \cup {tokens[1]} ELSE held

\* ------------------------------------------------------------------ Init
\* the state after start-up with process environment e
StartState(e) ==
  /\ users = Empty
  /\ nextId = 1
  /\ cacheUser = Empty
  /\ cacheEmail = Empty
  /\ cacheUsername = Empty
  /\ pending = {}
  /\ held = {}
  /\ res = NoResponse
  /\ now = 0
  /\ ticks = 0
  /\ steps = 0
  /\ env = e
  /\ oauthFirst = Empty
  /\ resetIssued = <<>>
  /\ throttlerStorage = Empty
  /\ requestLog = <<>>
  /\ lookups = {}

Init == StartState([JWT_SECRET |-> "k1", JWT_REFRESH_SECRET |-> "k2"])

\* the environments that pass validationSchema: both secrets are required
\* strings of at least 32 characters, and nothing relates one to the other
Configurations == [JWT_SECRET : {"k1", "k2"}, JWT_REFRESH_SECRET : {"k1", "k2"}]

InitConfig == \E e \in Configurations : StartState(e)

\* --------------------------------------------------------------- requests
RegisterInputs ==
  [email : EmailInputs, username : Usernames \cup {NoName},
   password : {"p1"}, role : {NoRole}, provider : {"LOCAL"},
   providerId : {NoProviderId}]

CreateUserInputs ==
  {[email |-> "b@x", username |-> NoName, password |-> NoPassword,
    role |-> "ADMIN", provider |-> NoProvider, providerId |-> NoProviderId],
   [email |-> "a@x", username |-> NoName, password |-> "p1",
    role |-> NoRole, provider |-> NoProvider, providerId |-> NoProviderId]}

\* the part of the state requests read and write
Core == <<users, nextId, cacheUser, cacheEmail, cacheUsername, pending, held,
          oauthFirst, resetIssued>>

CanStart == steps < MaxSteps

\* a request that changed stored state uses up one unit of the budget
Count == steps' = IF Core' = Core THEN steps ELSE steps + 1

FreeSlot == CHOOSE k \in 1..MaxPending : \A q \in pending : q.slot # k

\* UserService.create -> UserCrudService.create, up to the point where the
\* document is about to be saved; origin names the caller
CreateStart(origin, input) ==
  /\ CanStart
  /\ LET chk == crudCreateCheck(users, input)
     IN  IF chk = "ok"
         THEN /\ Cardinality(pending) < MaxPending
              /\ nextId <= MaxUsers
              /\ pending' = pending \cup
                   {[slot |-> FreeSlot, origin |-> origin, input |-> input]}
              /\ res' = NoResponse
         ELSE /\ res' = Response(origin, "Conflict", input, 0, NoTokens)
              /\ UNCHANGED pending
  /\ UNCHANGED <<users, nextId, cacheUser, cacheEmail, cacheUsername, held,
                 now, ticks, env, oauthFirst, resetIssued, sideVars>>
  /\ Count

\* AuthService.register
RegisterStart(input) == CreateStart("register", input)

\* UserResolver.createUser
CreateUserStart(input) == CreateStart("createUser", input)

\* the request a pending create belongs to, as its response echoes it
RequestArg(p) ==
  IF p.origin = "oauth"
  THEN [provider |-> p.input.provider, id |-> p.input.providerId,
        email |-> p.input.email]
  ELSE p.input

\* a register that lets the error of a failed save() through (500)
SaveErrorUnmapped(origin) == "InternalError"

\* what the caller of UserService.create makes of a failed save():
\* AuthService.register turns every error into a ConflictException,
\* the other callers let it through (500)
SaveErrorStatus(origin) ==
  IF origin = "register" THEN "Conflict" ELSE "InternalError"

\* user.save() rejected by the unique indexes (mongoose-unique-validator's
\* ValidationError or the server's E11000)
SaveRejected(p) ==
  /\ p \in pending
  /\ ~UniqueIndexOk(users, nextId, NewDocument(p.input, now))
  /\ pending' = pending \ {p}
  /\ res' = Response(p.origin, SaveErrorStatus(p.origin), RequestArg(p), 0,
                     NoTokens)
  /\ UNCHANGED <<users, nextId, cacheUser, cacheEmail, cacheUsername, held,
                 now, ticks, steps, env, oauthFirst, resetIssued, sideVars>>

\* user.save() succeeds; UserService.create caches the new user; then the
\* caller's continuation: register and oauthLogin issue tokens, oauthLogin
\* first records the login
SaveStored(p) ==
  /\ p \in pending
  /\ nextId <= MaxUsers
  /\ LET d == NewDocument(p.input, now)
         user == [_id |-> nextId] @@ d
         c1 == cacheUserWithLookups(Cache, user)
         isOAuth == p.origin = "oauth"
         db1 == Put(users, nextId, d)
         tokens == IF p.origin = "createUser" THEN NoTokens
                   ELSE <<generateTokens(user, env, now)>>
         pair == <<p.input.provider, p.input.providerId>>
     IN  /\ UniqueIndexOk(users, nextId, d)
         /\ users' = IF isOAuth THEN updateLastLoginDb(db1, nextId, now) ELSE db1
         /\ SetCache(IF isOAuth THEN invalidateUserCache(c1, nextId) ELSE c1)
         /\ nextId' = nextId + 1
         /\ pending' = pending \ {p}
         /\ res' = Response(p.origin, "ok", RequestArg(p), nextId, tokens)
         /\ held' = Keep(tokens)
         /\ oauthFirst' = IF isOAuth /\ pair \notin DOMAIN oauthFirst
                          THEN Put(oauthFirst, pair, nextId) ELSE oauthFirst
  /\ UNCHANGED <<now, ticks, steps, env, resetIssued, sideVars>>

\* AuthService.login
Login(email, password) ==
  /\ CanStart
  /\ LET arg == [email |-> email, password |-> password]
         f == findByEmail(users, Cache, email)
         Reject(c) ==
           /\ res' = Response("login", "Unauthorized", arg, 0, NoTokens)
           /\ SetCache(c)
           /\ UNCHANGED <<users, held>>
     IN  IF f.user = <<>> THEN Reject(f.cache)
         ELSE LET user == f.user[1]
              IN  IF ~user.isActive THEN Reject(f.cache)
                  ELSE IF user.provider # "LOCAL" THEN Reject(f.cache)
                  ELSE IF user.password = <<>> THEN Reject(f.cache)
                  ELSE IF ~verifyPassword(password, user.password)
                       THEN Reject(f.cache)
                  ELSE \* updateLastLogin, generateTokens, user.toObject()
                       /\ users' = updateLastLoginDb(users, user._id, now)
                       /\ SetCache(invalidateUserCache(f.cache, user._id))
                       /\ IF f.fromCache
                          THEN \* a cached user is a plain object:
                               \* user.toObject is not a function
                               /\ res' = Response("login", "InternalError",
                                                  arg, user._id, NoTokens)
                               /\ UNCHANGED held
                          ELSE LET tokens == <<generateTokens(user, env, now)>>
                               IN  /\ res' = Response("login", "ok", arg,
                                                      user._id, tokens)
                                   /\ held' = Keep(tokens)
  /\ UNCHANGED <<nextId, pending, now, ticks, env, oauthFirst, resetIssued, sideVars>>
  /\ Count

\* AuthService.oauthLogin(profile, provider); googleLogin and githubLogin
\* call it with their provider
OAuthLogin(provider, profile) ==
  /\ CanStart
  /\ LET arg == [provider |-> provider, id |-> profile.id,
                 email |-> profile.email]
         pair == <<provider, profile.id>>
         found == findIdsByProvider(users, provider, profile.id)
         \* updateLastLogin, generateTokens and the response for user u
         Finish(u, c) ==
           LET tokens == <<generateTokens(u, env, now)>>
           IN  /\ users' = updateLastLoginDb(users, u._id, now)
               /\ SetCache(invalidateUserCache(c, u._id))
               /\ res' = Response("oauth", "ok", arg, u._id, tokens)
               /\ held' = Keep(tokens)
               /\ oauthFirst' = IF pair \notin DOMAIN oauthFirst
                                THEN Put(oauthFirst, pair, u._id)
                                ELSE oauthFirst
               /\ UNCHANGED <<pending, resetIssued, sideVars>>
     IN  \/ \* findByProvider: findOne returns one of the matching documents
            \E i \in found : Finish(Doc(users, i), Cache)
         \/ /\ found = {}
            /\ IF profile.email = NoEmail
               THEN /\ res' = Response("oauth", "Unauthorized", arg, 0, NoTokens)
                    /\ UNCHANGED <<users, cacheUser, cacheEmail, cacheUsername,
                                   held, oauthFirst, resetIssued, sideVars, pending>>
               ELSE LET f == findByEmail(users, Cache, profile.email)
                        input == [email |-> profile.email, username |-> NoName,
                                  password |-> NoPassword, role |-> NoRole,
                                  provider |-> provider,
                                  providerId |-> profile.id]
                    IN  IF f.user # <<>>
                        THEN \* "we'll just use the existing user"
                             Finish(f.user[1], f.cache)
                        ELSE \* UserService.create(newUserData), up to save()
                             IF crudCreateCheck(users, input) = "ok"
                             THEN /\ Cardinality(pending) < MaxPending
                                  /\ nextId <= MaxUsers
                                  /\ pending' = pending \cup
                                       {[slot |-> FreeSlot, origin |-> "oauth",
                                         input |-> input]}
                                  /\ res' = NoResponse
                                  /\ UNCHANGED <<users, cacheUser, cacheEmail,
                                         cacheUsername, held, oauthFirst, resetIssued, sideVars>>
                             ELSE /\ res' = Response("oauth", "Conflict", arg,
                                                     0, NoTokens)
                                  /\ UNCHANGED <<users, cacheUser, cacheEmail,
                                         cacheUsername, held, oauthFirst, resetIssued, sideVars,
                                         pending>>
  /\ UNCHANGED <<nextId, now, ticks, env>>
  /\ Count

\* the user the JWT guard attaches to the request of an authenticated caller
CurrentUser(caller) == Doc(users, caller)

\* UserResolver.updateUser(id, updateUserInput, currentUser)
\*   -> UserService.update -> UserCrudService.update
UpdateUser(caller, id, patch) ==
  /\ CanStart
  /\ caller \in DOMAIN users
  /\ LET arg == [caller |-> caller, id |-> id, patch |-> patch]
         Fail(status) ==
           /\ res' = Response("updateUser", status, arg, 0, NoTokens)
           /\ UNCHANGED <<users, cacheUser, cacheEmail, cacheUsername>>
     IN  IF CurrentUser(caller).role # "ADMIN" /\ caller # id
         THEN Fail("NotFound")
         ELSE IF id \notin DOMAIN users
         THEN Fail("NotFound")
         ELSE LET d == ApplyPatch(users[id], patch, now)
              IN  IF ~UniqueIndexOk(users, id, d)
                  THEN \* findByIdAndUpdate fails with E11000
                       Fail("InternalError")
                  ELSE /\ users' = [users EXCEPT ![id] = d]
                       /\ SetCache(cacheUserWithLookups(
                             invalidateAllUserCaches(Cache, Doc(users, id)),
                             [_id |-> id] @@ d))
                       /\ res' = Response("updateUser", "ok", arg, id, NoTokens)
  /\ UNCHANGED <<nextId, pending, held, now, ticks, env, oauthFirst, resetIssued, sideVars>>
  /\ Count

\* a guard that lets administrators through whatever the route requires
RolesGuardAdminBypass(user, requiredRoles) ==
  user.role = "ADMIN" \/ user.role \in requiredRoles

\* RolesGuard.canActivate for a route with @Roles(requiredRoles):
\* requiredRoles.some((role) => user.role === role)
RolesGuardAllows(user, requiredRoles) == user.role \in requiredRoles

\* RolesGuard.canActivate(context): roles is <<>> when the route carries no
\* @Roles metadata and <<requiredRoles>> otherwise; reqUser is <<>> when the
\* request has no user and <<user>> otherwise
canActivate(roles, reqUser) ==
  IF roles = <<>> THEN TRUE
  ELSE IF reqUser = <<>> THEN FALSE
       ELSE RolesGuardAllows(reqUser[1], roles[1])

\* what routes and requests the guard is asked about
ContextTypes == {"http", "graphql"}
RouteRoles == {<<>>} \cup {<<rs>> : rs \in (SUBSET UserRole) \ {{}}}
RequestUsers ==
  {<<>>} \cup {<<u>> : u \in [_id : Ids, role : UserRole \cup {NoRole}]}

\* a request to a route behind RolesGuard: the handler runs ("ok") when the
\* guard returns true, otherwise the framework answers 403
GuardedRoute(contextType, roles, reqUser) ==
  /\ res' = Response("guarded",
                     IF canActivate(roles, reqUser) THEN "ok" ELSE "Forbidden",
                     [contextType |-> contextType, roles |-> roles,
                      user |-> reqUser],
                     0, NoTokens)
  /\ UNCHANGED <<users, nextId, cacheUser, cacheEmail, cacheUsername, pending,
                 held, now, ticks, steps, env, oauthFirst, resetIssued, sideVars>>

\* UserResolver.removeUser(id) -> UserService.remove -> UserCrudService.remove
RemoveUser(caller, id) ==
  /\ CanStart
  /\ caller \in DOMAIN users
  /\ LET arg == [caller |-> caller, id |-> id]
     IN  IF ~RolesGuardAllows(CurrentUser(caller), {"ADMIN"})
         THEN /\ res' = Response("removeUser", "Forbidden", arg, 0, NoTokens)
              /\ UNCHANGED <<users, cacheUser, cacheEmail, cacheUsername>>
         ELSE IF id \in DOMAIN users
         THEN \* findByIdAndDelete, then invalidateAllUserCaches
              /\ users' = Del(users, id)
              /\ SetCache(invalidateAllUserCaches(Cache, Doc(users, id)))
              /\ res' = Response("removeUser", "ok", arg, id, NoTokens)
         ELSE /\ res' = Response("removeUser", "false", arg, 0, NoTokens)
              /\ UNCHANGED <<users, cacheUser, cacheEmail, cacheUsername>>
  /\ UNCHANGED <<nextId, pending, held, now, ticks, env, oauthFirst, resetIssued, sideVars>>
  /\ Count

\* a remove that deletes the document (baseRepo.deleteById)
hardDelete(db, id, t) == Del(db, id)

\* UserRepository.remove(id): the soft delete,
\* baseRepo.updateById(id, { isActive: false })
softDelete(db, id, t) ==
  [db EXCEPT ![id] = ApplyPatch(db[id], [isActive |-> FALSE], t)]

\* UserBusinessService.deactivateUser(id) -> UserRepository.remove(id)
DeactivateUser(id) ==
  /\ CanStart
  /\ LET arg == [id |-> id]
     IN  IF id \notin DOMAIN users
         THEN /\ res' = Response("deactivateUser", "NotFound", arg, 0, NoTokens)
              /\ UNCHANGED users
         ELSE /\ users' = softDelete(users, id, now)
              /\ res' = Response("deactivateUser", "ok", arg, id, NoTokens)
  /\ UNCHANGED <<nextId, cacheUser, cacheEmail, cacheUsername, pending, held,
                 now, ticks, env, oauthFirst, resetIssued, sideVars>>
  /\ Count

\* AuthService.changePassword(userId, currentPassword, newPassword)
\*   -> UserService.updatePassword
ChangePassword(userId, currentPassword, newPassword) ==
  /\ CanStart
  /\ LET arg == [userId |-> userId, currentPassword |-> currentPassword,
                 newPassword |-> newPassword]
         f1 == findOne(users, Cache, userId)
         Reject(c) ==
           /\ res' = Response("changePassword", "Unauthorized", arg, 0,
                              NoTokens)
           /\ SetCache(c)
           /\ UNCHANGED users
     IN  IF f1.user = <<>> THEN Reject(f1.cache)
         ELSE LET f2 == findByEmail(users, f1.cache, f1.user[1].email)
              IN  IF f2.user = <<>> THEN Reject(f2.cache)
                  ELSE IF f2.user[1].password = <<>> THEN Reject(f2.cache)
                  ELSE IF ~verifyPassword(currentPassword, f2.user[1].password)
                       THEN Reject(f2.cache)
                  ELSE IF userId \in DOMAIN users
                       THEN /\ users' = updatePasswordDb(users, userId,
                                                         newPassword, now)
                            /\ SetCache(invalidateUserCache(f2.cache, userId))
                            /\ res' = Response("changePassword", "ok", arg,
                                               userId, NoTokens)
                       ELSE \* findByIdAndUpdate found nothing: returns false
                            /\ res' = Response("changePassword", "false", arg,
                                               0, NoTokens)
                            /\ SetCache(f2.cache)
                            /\ UNCHANGED users
  /\ UNCHANGED <<nextId, pending, held, now, ticks, env, oauthFirst, resetIssued, sideVars>>
  /\ Count

\* a refresh verification that takes the secret of the access tokens
RefreshVerifySecretOfAccess(e) == ConfigJwtSecret(e)

\* the secret AuthService.refreshToken verifies with
RefreshVerifySecret(e) ==
  IF e.JWT_REFRESH_SECRET # "" THEN e.JWT_REFRESH_SECRET ELSE "refresh-secret-key"

\* AuthService.refreshToken(refreshToken)
RefreshToken(token) ==
  /\ CanStart
  /\ LET arg == [token |-> token]
         Reject(c) ==
           /\ res' = Response("refreshToken", "Unauthorized", arg, 0, NoTokens)
           /\ SetCache(c)
           /\ UNCHANGED held
     IN  IF ~JwtVerifyOk(token, RefreshVerifySecret(env), now)
         THEN Reject(Cache)
         ELSE LET f == findOne(users, Cache, Decode(token).sub)
              IN  IF f.user = <<>> THEN Reject(f.cache)
                  ELSE IF ~f.user[1].isActive THEN Reject(f.cache)
                  ELSE LET tokens == <<generateTokens(f.user[1], env, now)>>
                       IN  /\ res' = Response("refreshToken", "ok", arg,
                                              f.user[1]._id, tokens)
                           /\ SetCache(f.cache)
                           /\ held' = Keep(tokens)
  /\ UNCHANGED <<users, nextId, pending, now, ticks, env, oauthFirst, resetIssued, sideVars>>
  /\ Count

\* a forgotPassword that answers false when it finds no user
forgotPasswordReturnsFound(user) == IF user = <<>> THEN "false" ELSE "true"

\* the value AuthService.forgotPassword returns for the user its lookup
\* gave (<<>>: none): true on the early return and true at the end
forgotPasswordReturns(user) == IF user = <<>> THEN "true" ELSE "true"

\* AuthService.forgotPassword(email)
ForgotPassword(email) ==
  /\ LET f == findByEmail(users, Cache, email)
     IN  IF f.user = <<>>
         THEN \* "Don't reveal if email exists or not"
              /\ SetCache(f.cache)
              /\ UNCHANGED <<users, resetIssued>>
         ELSE LET id == f.user[1]._id
                  resetToken == generateRandomToken(resetIssued)
                  expires == now + ResetTokenLifetime
              IN  /\ Len(resetIssued) < MaxResets
                  /\ users' = setPasswordResetTokenDb(users, id, resetToken,
                                                      expires, now)
                  /\ SetCache(invalidateUserCache(f.cache, id))
                  /\ resetIssued' = Append(resetIssued,
                        [token |-> resetToken, uid |-> id, at |-> now,
                         stored |-> id \in DOMAIN users])
  /\ res' = Response("forgotPassword",
                     forgotPasswordReturns(findByEmail(users, Cache, email).user),
                     [email |-> email], 0, NoTokens)
  /\ UNCHANGED <<nextId, pending, held, now, ticks, steps, env, oauthFirst,
                 sideVars>>

\* AuthService.resetPassword(token, newPassword)
ResetPassword(token, newPassword) ==
  /\ CanStart
  /\ LET arg == [token |-> token, newPassword |-> newPassword]
         found == findByPasswordResetToken(users, token, now)
     IN  IF found = {}
         THEN /\ res' = Response("resetPassword", "Unauthorized", arg, 0,
                                 NoTokens)
              /\ UNCHANGED <<users, cacheUser, cacheEmail, cacheUsername>>
         ELSE \E i \in found :
                \* updatePassword, then clearPasswordResetToken, each
                \* followed by invalidateUserCache
                /\ users' = clearPasswordResetTokenDb(
                               updatePasswordDb(users, i, newPassword, now),
                               i, now)
                /\ SetCache(invalidateUserCache(
                               invalidateUserCache(Cache, i), i))
                /\ res' = Response("resetPassword", "true", arg, i, NoTokens)
  /\ UNCHANGED <<nextId, pending, held, now, ticks, env, oauthFirst,
                 resetIssued, sideVars>>
  /\ Count

\* the JWT guard in front of a route: the bearer access token verifies
JwtAuthGuardAdmits(token, e, t) == JwtVerifyOk(token, ConfigJwtSecret(e), t)

\* a logout that drops the caller's auth:email entry from Redis
LogoutDroppingCache(token) ==
  /\ res' = Response("logout",
                     IF JwtAuthGuardAdmits(token, env, now)
                     THEN "ok" ELSE "Unauthorized",
                     [token |-> token], 0, NoTokens)
  /\ cacheEmail' = IF JwtAuthGuardAdmits(token, env, now)
                   THEN [k \in {x \in DOMAIN cacheEmail :
                                  toLowerCase(x) # Decode(token).email}
                         |-> cacheEmail[k]]
                   ELSE cacheEmail
  /\ UNCHANGED <<users, nextId, cacheUser, cacheUsername, pending, held,
                 now, ticks, steps, env, oauthFirst, resetIssued, sideVars>>

\* AuthResolver.logout behind JwtAuthGuard: {success: true, message}
Logout(token) ==
  /\ res' = Response("logout",
                     IF JwtAuthGuardAdmits(token, env, now)
                     THEN "ok" ELSE "Unauthorized",
                     [token |-> token], 0, NoTokens)
  /\ UNCHANGED <<users, nextId, cacheUser, cacheEmail, cacheUsername, pending,
                 held, now, ticks, steps, env, oauthFirst, resetIssued, sideVars>>

\* ------------------------------------------------------- rate limiting
\* ThrottlerModule.forRoot([...]): ttl in seconds
Throttlers ==
  <<[name |-> "short", ttl |-> 1, limit |-> 3],
    [name |-> "medium", ttl |-> 10, limit |-> 20],
    [name |-> "long", ttl |-> 60, limit |-> 100]>>

ClientIps == {"ip1"}

\* the request object the guard reads: <<>> when the execution context has
\* none to give (GraphQL: switchToHttp().getRequest() is the root value)
ThrottledRequests ==
  {[contextType |-> "http", req |-> <<[ip |-> ip]>>] : ip \in ClientIps}
    \cup {[contextType |-> "graphql", req |-> <<>>]}

\* CustomThrottlerGuard.getTracker(req)
getTracker(req) == IF req = <<>> THEN "unknown" ELSE req[1].ip

\* the hits of a key that are younger than ttl at time t
LiveHits(storage, key, ttl, t) ==
  IF key \in DOMAIN storage
  THEN SelectSeq(storage[key], LAMBDA h : t - h < ttl)
  ELSE <<>>

\* ThrottlerStorageService.increment: a hit is counted unless the key is
\* blocked; the key is blocked while it holds more than `limit` live hits
increment(storage, key, throttler, t) ==
  LET live == LiveHits(storage, key, throttler.ttl, t)
      hits == IF Len(live) > throttler.limit THEN live ELSE Append(live, t)
  IN  [storage |-> Put(storage, key, hits),
       isBlocked |-> Len(hits) > throttler.limit]

\* ThrottlerGuard.handleRequest for one throttler: count the hit, then write
\* the rate-limit headers with res.header(...), which only an HTTP response
\* has; a blocked key throws ThrottlerException
superHandleRequest(storage, request, throttler, t) ==
  LET key == <<getTracker(request.req), throttler.name>>
      inc == increment(storage, key, throttler, t)
  IN  [storage |-> inc.storage,
       outcome |-> IF request.contextType # "http"
                   THEN "TypeError: res.header is not a function"
                   ELSE IF inc.isBlocked THEN "ThrottlerException"
                   ELSE "true"]

\* CustomThrottlerGuard.handleRequest(requestProps)
handleRequest(storage, request, throttler, t) ==
  LET r == superHandleRequest(storage, request, throttler, t)
  IN  IF r.outcome = "TypeError: res.header is not a function"
      THEN [storage |-> r.storage, outcome |-> "true"]
      ELSE r

\* ThrottlerGuard.canActivate: the throttlers in order from the k-th on,
\* up to the first one that throws
RECURSIVE throttlerCanActivate(_, _, _, _)
throttlerCanActivate(storage, request, k, t) ==
  IF k > Len(Throttlers)
  THEN [storage |-> storage, admitted |-> TRUE]
  ELSE LET r == handleRequest(storage, request, Throttlers[k], t)
       IN  IF r.outcome = "true"
           THEN throttlerCanActivate(r.storage, request, k + 1, t)
           ELSE [storage |-> r.storage, admitted |-> FALSE]

\* a request arrives at the global guard (APP_GUARD: CustomThrottlerGuard)
ThrottledRequest(request) ==
  /\ Len(requestLog) < MaxRequests
  /\ LET r == throttlerCanActivate(throttlerStorage, request, 1, now)
     IN  /\ throttlerStorage' = r.storage
         /\ requestLog' = Append(requestLog,
               [tracker |-> getTracker(request.req),
                contextType |-> request.contextType,
                at |-> now, admitted |-> r.admitted])
         /\ res' = Response("request",
                            IF r.admitted THEN "ok" ELSE "TooManyRequests",
                            request, 0, NoTokens)
  /\ UNCHANGED <<users, nextId, cacheUser, cacheEmail, cacheUsername, pending,
                 held, now, ticks, steps, env, oauthFirst, resetIssued,
                 lookups>>

\* ---------------------------------------------------------- user lookups
\* UserService.findByUsername(username): cache first, then
\* UserQueryService.findByUsername
findByUsername(db, c, username) ==
  IF username \in DOMAIN c.username
  THEN [user |-> <<c.username[username]>>, fromCache |-> TRUE, cache |-> c]
  ELSE LET ids == findIdsByUsername(db, username)
       IN  IF ids # {}
           THEN LET u == Doc(db, CHOOSE i \in ids : TRUE)
                IN  [user |-> <<u>>, fromCache |-> FALSE,
                     cache |-> [c EXCEPT !.username =
                                            Put(c.username, username, u)]]
           ELSE [user |-> <<>>, fromCache |-> FALSE, cache |-> c]

LookupKinds == {"findOne", "findByEmail", "findByUsername"}

\* the keys a lookup of each kind is asked for
LookupKeys(kind) ==
  IF kind = "findOne" THEN Ids
  ELSE IF kind = "findByEmail" THEN EmailInputs
  ELSE Usernames

\* UserService.findOne / findByEmail / findByUsername, by kind
lookup(db, c, kind, key) ==
  IF kind = "findOne" THEN findOne(db, c, key)
  ELSE IF kind = "findByEmail" THEN findByEmail(db, c, key)
  ELSE findByUsername(db, c, key)

\* the part of a lookup before its first cache write: the cache read and,
\* on a miss, the database read
lookupRead(db, c, kind, key) ==
  [user |-> lookup(db, c, kind, key).user,
   fromCache |-> lookup(db, c, kind, key).fromCache]

\* the part of a lookup after its database read: the cache write
lookupFill(c, kind, key, user) ==
  IF user = <<>> THEN c
  ELSE IF kind = "findOne" THEN cacheUserWithLookups(c, user[1])
  ELSE IF kind = "findByEmail"
       THEN [c EXCEPT !.email = Put(c.email, key, user[1])]
  ELSE [c EXCEPT !.username = Put(c.username, key, user[1])]

LookupResponse(kind, key, user) ==
  Response(kind, IF user = <<>> THEN "null" ELSE "ok",
           [key |-> key, returned |-> user],
           IF user = <<>> THEN 0 ELSE user[1]._id, NoTokens)

\* a lookup that runs from its cache read to its return with nothing else
\* in between
Lookup(kind, key) ==
  /\ lookups = {}
  /\ LET f == lookup(users, Cache, kind, key)
     IN  /\ SetCache(f.cache)
         /\ res' = LookupResponse(kind, key, f.user)
  /\ UNCHANGED <<users, nextId, pending, held, now, ticks, steps, env,
                 oauthFirst, resetIssued, sideVars>>

\* a lookup up to its await on the cache write: a hit returns at once, a
\* miss has read the database and is about to write the cache
LookupRead(kind, key) ==
  /\ Cardinality(lookups) < MaxLookups
  /\ LET r == lookupRead(users, Cache, kind, key)
     IN  IF r.fromCache
         THEN /\ res' = LookupResponse(kind, key, r.user)
              /\ UNCHANGED lookups
         ELSE /\ lookups' = lookups \cup
                             {[kind |-> kind, key |-> key, user |-> r.user]}
              /\ res' = NoResponse
  /\ UNCHANGED <<users, nextId, cacheUser, cacheEmail, cacheUsername, pending,
                 held, now, ticks, steps, env, oauthFirst, resetIssued,
                 throttlerStorage, requestLog>>

\* the lookup l writes what it read to the cache and returns it
LookupFill(l) ==
  /\ lookups' = lookups \ {l}
  /\ SetCache(lookupFill(Cache, l.kind, l.key, l.user))
  /\ res' = LookupResponse(l.kind, l.key, l.user)
  /\ UNCHANGED <<users, nextId, pending, held, now, ticks, steps, env,
                 oauthFirst, resetIssued, throttlerStorage, requestLog>>

\* ------------------------------------------------ what clients can send
\* a token whose payload was altered after signing (the signature is kept)
Tamper(token) == [token EXCEPT !.body.role = "ADMIN", !.body.sub = 1]

\* a token signed with a key that is not the server's
Forge(token) == [token EXCEPT !.sig = <<AttackerKey, token.body>>]

HeldTokens == UNION {{h.accessToken, h.refreshToken} : h \in held}

Presentable ==
  HeldTokens \cup {Forge(t) : t \in HeldTokens}
             \cup ({Tamper(t) : t \in HeldTokens} \ HeldTokens)

Profiles == [id : ProviderIds, email : {"a@x", "b@x", NoEmail}]

Patches ==
  {[isActive |-> FALSE], [username |-> "u1"], [role |-> "ADMIN"],
   [provider |-> "GOOGLE", providerId |-> "g1"]}

\* the clock advances by d seconds; Redis drops the entries whose TTL has
\* run out (every entry is at least 0 seconds old)
Tick(d) ==
  /\ ticks < MaxTicks
  /\ ticks' = ticks + 1
  /\ now' = now + d
  /\ cacheUser' = IF d >= USER_CACHE_TTL THEN Empty ELSE cacheUser
  /\ cacheEmail' = IF d >= AUTH_CACHE_TTL THEN Empty ELSE cacheEmail
  /\ cacheUsername' = IF d >= AUTH_CACHE_TTL THEN Empty ELSE cacheUsername
  /\ res' = NoResponse
  /\ UNCHANGED <<users, nextId, pending, held, steps, env, oauthFirst, resetIssued, sideVars>>

Next ==
  \/ \E input \in RegisterInputs : RegisterStart(input)
  \/ \E input \in CreateUserInputs : CreateUserStart(input)
  \/ \E p \in pending : SaveRejected(p)
  \/ \E p \in pending : SaveStored(p)
  \/ \E e \in EmailInputs, pw \in Passwords : Login(e, pw)
  \/ \E pr \in OAuthProviders, profile \in Profiles : OAuthLogin(pr, profile)
  \/ \E c \in Ids, i \in Ids, patch \in Patches : UpdateUser(c, i, patch)
  \/ \E c \in Ids, i \in Ids : RemoveUser(c, i)
  \/ \E i \in Ids : DeactivateUser(i)
  \/ \E i \in Ids, cur \in Passwords, new \in Passwords :
        ChangePassword(i, cur, new)
  \/ \E t \in Presentable : RefreshToken(t)
  \/ \E d \in {JwtExpiresIn, JwtRefreshExpiresIn} : Tick(d)

Spec == Init /\ [][Next]_vars

\* RolesGuard on its own: every route annotation against every request user
NextGuard ==
  \E ct \in ContextTypes, roles \in RouteRoles, u \in RequestUsers :
     GuardedRoute(ct, roles, u)

SpecGuard == Init /\ [][NextGuard]_vars

\* the password reset flow and logout, next to the requests they depend on;
\* a reset request carries a token forgotPassword generated or will generate
ResetTokens == 1..MaxResets

ResetRegisterInputs == {input \in RegisterInputs : input.username = NoName}

NextReset ==
  \/ \E input \in ResetRegisterInputs : RegisterStart(input)
  \/ \E p \in pending : SaveRejected(p)
  \/ \E p \in pending : SaveStored(p)
  \/ \E e \in EmailInputs, pw \in Passwords : Login(e, pw)
  \/ \E i \in Ids : DeactivateUser(i)
  \/ \E e \in EmailInputs : ForgotPassword(e)
  \/ \E t \in ResetTokens, pw \in Passwords : ResetPassword(t, pw)
  \/ \E t \in Presentable : Logout(t)
  \/ \E d \in {JwtExpiresIn, ResetTokenLifetime} : Tick(d)

SpecReset == Init /\ [][NextReset]_vars

\* the rate limiter on its own: requests and the passing of a second
NextThrottle ==
  \/ \E request \in ThrottledRequests : ThrottledRequest(request)
  \/ \E d \in {1} : Tick(d)

SpecThrottle == Init /\ [][NextThrottle]_vars

\* user administration with lookups that run one at a time
NextLookup ==
  \/ \E input \in CreateUserInputs : CreateUserStart(input)
  \/ \E p \in pending : SaveRejected(p)
  \/ \E p \in pending : SaveStored(p)
  \/ \E c \in Ids, i \in Ids, patch \in Patches : UpdateUser(c, i, patch)
  \/ \E c \in Ids, i \in Ids : RemoveUser(c, i)
  \/ \E kind \in LookupKinds : \E key \in LookupKeys(kind) : Lookup(kind, key)

SpecLookup == Init /\ [][NextLookup]_vars

\* the keys under which the cache itself stores a user
StoredKeys(kind) ==
  IF kind = "findByEmail" THEN {toLowerCase(e) : e \in EmailInputs}
  ELSE LookupKeys(kind)

\* user administration with lookups that other requests can overtake
\* between their database read and their cache write
NextRace ==
  \/ \E input \in CreateUserInputs : CreateUserStart(input)
  \/ \E p \in pending : SaveRejected(p)
  \/ \E p \in pending : SaveStored(p)
  \/ \E c \in Ids, i \in Ids, patch \in Patches : UpdateUser(c, i, patch)
  \/ \E c \in Ids, i \in Ids : RemoveUser(c, i)
  \/ \E kind \in LookupKinds : \E key \in StoredKeys(kind) :
        LookupRead(kind, key)
  \/ \E l \in lookups : LookupFill(l)
  \/ \E d \in {USER_CACHE_TTL} : Tick(d)

SpecRace == Init /\ [][NextRace]_vars

\* OAuth logins on their own, overlapping between the checks of
\* UserService.create and its save()
NextOAuth ==
  \/ \E pr \in OAuthProviders, profile \in Profiles : OAuthLogin(pr, profile)
  \/ \E p \in pending : SaveRejected(p)
  \/ \E p \in pending : SaveStored(p)
  \/ \E d \in {JwtExpiresIn} : Tick(d)

SpecOAuth == Init /\ [][NextOAuth]_vars

\* token issue and refresh under every configuration that starts
NextConfig ==
  \/ \E input \in ResetRegisterInputs : RegisterStart(input)
  \/ \E p \in pending : SaveRejected(p)
  \/ \E p \in pending : SaveStored(p)
  \/ \E e \in EmailInputs, pw \in Passwords : Login(e, pw)
  \/ \E pr \in OAuthProviders, profile \in Profiles : OAuthLogin(pr, profile)
  \/ \E i \in Ids : DeactivateUser(i)
  \/ \E t \in Presentable : RefreshToken(t)
  \/ \E d \in {JwtExpiresIn, JwtRefreshExpiresIn} : Tick(d)

SpecConfig == InitConfig /\ [][NextConfig]_vars

\* ------------------------------------------------------------- properties
\* C1: once a user is deactivated (isActive = false), every later password
\* login for that account is rejected with an unauthorized error, also when
\* the user was looked up and cached before the deactivation.
C1_DeactivatedLoginUnauthorized ==
  [][ (/\ res'.op = "login"
       /\ \E i \in findIdsByEmail(users, res'.arg.email) : ~users[i].isActive)
      => res'.status = "Unauthorized" ]_vars

\* C2: for each (provider, providerId) the first OAuth login creates exactly
\* one user record, and every later OAuth login with the same pair returns
\* that same record and creates no further record.
C2_OAuthOneRecordPerIdentity ==
  [][ (res'.op = "oauth" /\ res'.status = "ok")
      => LET pair == <<res'.arg.provider, res'.arg.id>>
         IN  IF pair \in DOMAIN oauthFirst
             THEN /\ res'.uid = oauthFirst[pair]
                  /\ DOMAIN users' = DOMAIN users
             ELSE /\ res'.uid \in (DOMAIN users') \ (DOMAIN users)
                  /\ Cardinality(DOMAIN users') = Cardinality(DOMAIN users) + 1
    ]_vars

C4_UniqueEmailAndUsername ==
  \A i, j \in DOMAIN users :
    i # j => /\ users[i].email # users[j].email
             /\ users[i].username # NoName
                  => users[i].username # users[j].username

\* two records without a username are stored side by side
C4_Witness ==
  \E i, j \in DOMAIN users :
    /\ i # j
    /\ users[i].username = NoName
    /\ users[j].username = NoName

\* C5: changePassword is rejected whenever the new password is identical to
\* the user's current password, and the stored hash is left unchanged.
C5_SamePasswordRejected ==
  [][ (/\ res'.op = "changePassword"
       /\ res'.arg.userId \in DOMAIN users
       /\ verifyPassword(res'.arg.newPassword,
                         users[res'.arg.userId].password))
      => /\ res'.status # "ok"
         /\ users'[res'.arg.userId].password = users[res'.arg.userId].password
    ]_vars

\* C6: changePassword is rejected with an unauthorized error whenever the
\* supplied current password does not verify against the user's stored hash,
\* and the stored hash is left unchanged.
C6_WrongCurrentPasswordUnauthorized ==
  [][ (/\ res'.op = "changePassword"
       /\ res'.arg.userId \in DOMAIN users
       /\ ~verifyPassword(res'.arg.currentPassword,
                          users[res'.arg.userId].password))
      => /\ res'.status = "Unauthorized"
         /\ users'[res'.arg.userId].password = users[res'.arg.userId].password
    ]_vars

\* a changePassword that supplied the password the user had before an
\* earlier change was answered with unauthorized
C6_Witness ==
  /\ res.op = "changePassword"
  /\ res.status = "Unauthorized"
  /\ res.arg.userId \in DOMAIN users
  /\ res.arg.currentPassword = "p1"
  /\ verifyPassword("p2", users[res.arg.userId].password)

\* the token is past its expiry at time t
Expired(token, t) == t >= token.body.exp

\* the token's signature is not one the server's keys give for its content
Tampered(token) ==
  \A k \in {ConfigJwtSecret(env), ConfigJwtRefreshSecret(env)} :
    token.sig # <<k, token.body>>

\* C7: refreshToken rejects every refresh token that is expired or whose
\* signature or content was tampered with: the call fails with an
\* unauthorized error and no new tokens are issued.
C7_ExpiredOrTamperedRejected ==
  [][ (/\ res'.op = "refreshToken"
       /\ (Expired(res'.arg.token, now) \/ Tampered(res'.arg.token)))
      => /\ res'.status = "Unauthorized"
         /\ res'.tokens = NoTokens
         /\ held' = held ]_vars

\* a refresh token the server issued was presented after its expiry, for a
\* user who is still active, and was rejected
C7_Witness ==
  /\ res.op = "refreshToken"
  /\ res.status = "Unauthorized"
  /\ ~Tampered(res.arg.token)
  /\ res.arg.token.sig[1] = ConfigJwtRefreshSecret(env)
  /\ Expired(res.arg.token, now)
  /\ res.arg.token.body.sub \in DOMAIN users
  /\ users[res.arg.token.body.sub].isActive

\* C8: refreshToken called with a validly signed, unexpired refresh token is
\* rejected with an unauthorized error whenever, at the time of the call, the
\* token's user no longer exists or has been deactivated.
C8_RefreshForGoneOrInactiveUser ==
  [][ (/\ res'.op = "refreshToken"
       /\ JwtVerifyOk(res'.arg.token, ConfigJwtRefreshSecret(env), now)
       /\ LET sub == Decode(res'.arg.token).sub
          IN  sub \notin DOMAIN users \/ ~users[sub].isActive)
      => res'.status = "Unauthorized" ]_vars

\* C9: every successful login returns an access token and a refresh token,
\* and each decodes to a payload whose sub is the logged-in user's id, whose
\* email is that user's e-mail and whose role is that user's role.
C9_LoginTokensCarryUser ==
  [][ (res'.op = "login" /\ res'.status = "ok")
      => /\ res'.tokens # NoTokens
         /\ res'.uid \in DOMAIN users
         /\ \A tok \in {res'.tokens[1].accessToken,
                        res'.tokens[1].refreshToken} :
              /\ Decode(tok).sub = res'.uid
              /\ Decode(tok).email = users[res'.uid].email
              /\ Decode(tok).role = users[res'.uid].role ]_vars

\* an administrator logged in and holds the tokens of that login
C9_Witness ==
  /\ res.op = "login"
  /\ res.status = "ok"
  /\ res.uid \in DOMAIN users
  /\ users[res.uid].role = "ADMIN"
  /\ res.tokens # NoTokens
  /\ Decode(res.tokens[1].accessToken).role = "ADMIN"

\* C10 as stated: after a deactivation through the soft-delete path the
\* record still exists with isActive = false and every other field
\* unchanged, and the number of user records has not decreased.
C10_SoftDeleteOnlyClearsIsActive ==
  [][ (res'.op = "deactivateUser" /\ res'.status = "ok")
      => LET id == res'.arg.id
         IN  /\ id \in DOMAIN users'
             /\ ~users'[id].isActive
             /\ \A f \in (DOMAIN users[id]) \ {"isActive"} :
                  users'[id][f] = users[id][f]
             /\ Cardinality(DOMAIN users') >= Cardinality(DOMAIN users) ]_vars

\* C10 amended: after a deactivation through the soft-delete path the record
\* still exists with isActive = false and every other field except the
\* updatedAt timestamp unchanged, no other record is touched, and the number
\* of user records has not decreased.
C10_SoftDeleteKeepsRecord ==
  [][ (res'.op = "deactivateUser" /\ res'.status = "ok")
      => LET id == res'.arg.id
         IN  /\ id \in DOMAIN users'
             /\ ~users'[id].isActive
             /\ \A f \in (DOMAIN users[id]) \ {"isActive", "updatedAt"} :
                  users'[id][f] = users[id][f]
             /\ \A j \in (DOMAIN users) \ {id} :
                  j \in DOMAIN users' /\ users'[j] = users[j]
             /\ Cardinality(DOMAIN users') >= Cardinality(DOMAIN users) ]_vars

\* a user created earlier was deactivated at a later time and is still
\* stored, inactive, with the password it had
C10_Witness ==
  /\ res.op = "deactivateUser"
  /\ res.status = "ok"
  /\ res.uid \in DOMAIN users
  /\ ~users[res.uid].isActive
  /\ users[res.uid].updatedAt > 0
  /\ users[res.uid].password # <<>>

\* C11: when an OAuth login finds no user for (provider, providerId) but an
\* existing user has the profile's e-mail, that user is reused (no record is
\* created) and is linked to the OAuth account: its provider and providerId
\* are set to the profile's, so a later lookup by (provider, providerId)
\* returns that user.
C11_OAuthEmailMatchLinks ==
  [][ (/\ res'.op = "oauth"
       /\ res'.status = "ok"
       /\ findIdsByProvider(users, res'.arg.provider, res'.arg.id) = {}
       /\ res'.arg.email # NoEmail
       /\ findIdsByEmail(users, res'.arg.email) # {})
      => /\ DOMAIN users' = DOMAIN users
         /\ res'.uid \in findIdsByEmail(users, res'.arg.email)
         /\ res'.uid \in findIdsByProvider(users', res'.arg.provider,
                                           res'.arg.id) ]_vars

\* C12: no request made by a non-admin user changes any user's role (their
\* own included): an update request from a non-admin that carries a role
\* field is rejected with a forbidden error and nothing is written.
C12_NonAdminCannotSetRole ==
  [][ (/\ res'.op = "updateUser"
       /\ res'.arg.caller \in DOMAIN users
       /\ users[res'.arg.caller].role # "ADMIN"
       /\ "role" \in DOMAIN res'.arg.patch)
      => /\ res'.status = "Forbidden"
         /\ users' = users ]_vars

\* C13: an updateUser request from a non-admin caller that targets another
\* user's id is rejected with a forbidden (403) error and the target record
\* is not modified.
C13_UpdateOtherUserForbidden ==
  [][ (/\ res'.op = "updateUser"
       /\ res'.arg.caller \in DOMAIN users
       /\ users[res'.arg.caller].role # "ADMIN"
       /\ res'.arg.caller # res'.arg.id)
      => /\ res'.status = "Forbidden"
         /\ users' = users ]_vars

\* the create request of a response names an e-mail or a username that a
\* stored record already has
CreateTaken(r) ==
  \/ findIdsByEmail(users, r.arg.email) # {}
  \/ /\ r.op # "oauth"
     /\ r.arg.username # NoName
     /\ findIdsByUsername(users, r.arg.username) # {}

\* the update request of a response sets a username that another stored
\* record already has
UpdateTaken(r) ==
  /\ "username" \in DOMAIN r.arg.patch
  /\ findIdsByUsername(users, r.arg.patch.username) \ {r.arg.id} # {}

\* C16: every request that fails because the requested e-mail or username is
\* already taken is reported as a conflict (409) and never as another error
\* class: for register, for createUser, for a profile update that changes
\* the username, and when two such requests race so that only the database
\* detects the duplicate.
C16_DuplicateIsConflict ==
  [][ (\/ /\ res'.op \in {"register", "createUser"}
          /\ res'.status # "ok"
          /\ CreateTaken(res')
       \/ /\ res'.op = "updateUser"
          /\ res'.status \notin {"ok", "NotFound"}
          /\ UpdateTaken(res'))
      => res'.status = "Conflict" ]_vars

\* C17: findOne, update, remove and updatePassword addressed to a user id
\* for which no record exists each fail with a not-found (404) error and
\* change no stored or cached state.  Stated for the requests that reach
\* UserService.update and UserService.remove with such an id (they passed
\* the guards of their routes).
C17_MissingUserNotFound ==
  [][ (\/ /\ res'.op = "removeUser"
          /\ res'.status # "Forbidden"
          /\ res'.arg.id \notin DOMAIN users
       \/ /\ res'.op = "updateUser"
          /\ users[res'.arg.caller].role = "ADMIN"
          /\ res'.arg.id \notin DOMAIN users)
      => /\ res'.status = "NotFound"
         /\ users' = users
         /\ <<cacheUser, cacheEmail, cacheUsername>>' =
              <<cacheUser, cacheEmail, cacheUsername>> ]_vars

C15_AdminAdmittedEverywhere ==
  (/\ res.op = "guarded"
   /\ res.arg.roles # <<>>
   /\ res.arg.user # <<>>
   /\ res.arg.user[1].role = "ADMIN")
    => res.status = "ok"

\* forgotPassword stored `token` for user i less than one hour before time t
StoredWithinLifetime(token, i, t) ==
  \E k \in 1..Len(resetIssued) :
     /\ resetIssued[k].token = token
     /\ resetIssued[k].uid = i
     /\ resetIssued[k].stored
     /\ resetIssued[k].at <= t
     /\ t - resetIssued[k].at < ResetTokenLifetime

\* C18: resetPassword succeeds only for a token that forgotPassword stored
\* for some user less than one hour earlier, and then changes that user's
\* password only; every other resetPassword fails with an unauthorized error
\* and changes no password.
C18_ResetOnlyWithFreshToken ==
  [][res'.op = "resetPassword" =>
       IF res'.status = "true"
       THEN /\ res'.uid \in DOMAIN users
            /\ StoredWithinLifetime(res'.arg.token, res'.uid, now)
            /\ \A i \in DOMAIN users \ {res'.uid} :
                  users'[i].password = users[i].password
       ELSE /\ res'.status = "Unauthorized"
            /\ \A i \in DOMAIN users :
                  users'[i].password = users[i].password]_vars

\* a reset that succeeded a quarter of an hour after its token was stored,
\* and the user now has the new password
C18_Witness ==
  /\ res.op = "resetPassword"
  /\ res.status = "true"
  /\ res.uid \in DOMAIN users
  /\ verifyPassword(res.arg.newPassword, users[res.uid].password)
  /\ \E k \in 1..Len(resetIssued) :
        /\ resetIssued[k].token = res.arg.token
        /\ resetIssued[k].stored
        /\ now - resetIssued[k].at = JwtExpiresIn

\* C19: the reset flow is closed to deactivated accounts: forgotPassword for
\* the e-mail of a deactivated user returns false and stores no token, and
\* resetPassword with a token stored on a deactivated user fails with an
\* unauthorized error and leaves the password unchanged.
C19_ResetClosedToDeactivated ==
  [][/\ (/\ res'.op = "forgotPassword"
         /\ \E i \in DOMAIN users :
               /\ users[i].email = toLowerCase(res'.arg.email)
               /\ ~users[i].isActive)
        => /\ res'.status = "false"
           /\ resetIssued' = resetIssued
           /\ \A i \in DOMAIN users :
                 users'[i].passwordResetToken = users[i].passwordResetToken
     /\ (/\ res'.op = "resetPassword"
         /\ \E i \in DOMAIN users :
               /\ users[i].passwordResetToken = res'.arg.token
               /\ ~users[i].isActive)
        => /\ res'.status = "Unauthorized"
           /\ \A i \in DOMAIN users :
                 users'[i].password = users[i].password]_vars

AdmittedIn(tracker, from, len) ==
  {k \in 1..Len(requestLog) :
     /\ requestLog[k].tracker = tracker
     /\ requestLog[k].admitted
     /\ from <= requestLog[k].at
     /\ requestLog[k].at < from + len}

\* C21: for every client tracker the rate limiter admits at most 3 requests
\* within any 1-second window, 20 within any 10-second window and 100 within
\* any 60-second window, for REST and GraphQL requests alike.
C21_RateLimitPerTracker ==
  \A k \in 1..Len(requestLog), j \in 1..Len(Throttlers) :
     Cardinality(AdmittedIn(requestLog[k].tracker, requestLog[k].at,
                            Throttlers[j].ttl)) <= Throttlers[j].limit

\* the stored password of user i was written by a password update (every
\* update hashes with the salt after the one it replaces)
PasswordUpdated(db, i) == db[i].password # <<>> /\ db[i].password[2] > 1

\* C22: once a user's password has been changed (changePassword or
\* resetPassword), a login for that user succeeds with the password now
\* stored and is rejected as unauthorized with any other, the old one
\* included, whatever was looked up and cached before the change.
C22_LoginFollowsPasswordChange ==
  [][res'.op = "login" =>
       \A i \in DOMAIN users :
          (/\ users[i].email = toLowerCase(res'.arg.email)
           /\ PasswordUpdated(users, i)
           /\ users[i].isActive
           /\ users[i].provider = "LOCAL")
          => IF verifyPassword(res'.arg.password, users[i].password)
             THEN res'.status = "ok"
             ELSE res'.status = "Unauthorized"]_vars

\* what the database holds for a lookup: the possible return values
DbAnswers(db, kind, key) ==
  LET ids == IF kind = "findOne" THEN {key} \cap DOMAIN db
             ELSE IF kind = "findByEmail"
                  THEN findIdsByEmail(db, toLowerCase(key))
             ELSE findIdsByUsername(db, key)
  IN  IF ids = {} THEN {<<>>} ELSE {<<Doc(db, i)>> : i \in ids}

\* C23: with requests running one at a time, findOne, findByEmail and
\* findByUsername return the record as the last update left it, and null
\* once the user has been removed: never data from before the write.
C23_LookupsSeeWrites ==
  [][res'.op \in LookupKinds =>
       res'.arg.returned \in DbAnswers(users', res'.op, res'.arg.key)]_vars

\* C24: once every lookup that ran next to an update or a remove has
\* completed, the cache holds no entry that differs from the database
\* record of its user.
C24_CacheMatchesDatabaseWhenQuiet ==
  lookups = {} =>
    /\ \A i \in DOMAIN cacheUser :
          i \in DOMAIN users /\ cacheUser[i] = Doc(users, i)
    /\ \A k \in DOMAIN cacheEmail :
          /\ cacheEmail[k]._id \in DOMAIN users
          /\ cacheEmail[k] = Doc(users, cacheEmail[k]._id)
    /\ \A k \in DOMAIN cacheUsername :
          /\ cacheUsername[k]._id \in DOMAIN users
          /\ cacheUsername[k] = Doc(users, cacheUsername[k]._id)

\* C25: an OAuth login never issues tokens for a deactivated user, whether
\* the account is found by provider id or by the e-mail fallback: it is
\* rejected as unauthorized, as a password login is.
C25_OAuthRejectsDeactivated ==
  [][(/\ res'.op = "oauth"
      /\ res'.uid \in DOMAIN users
      /\ ~users[res'.uid].isActive)
     => /\ res'.status = "Unauthorized"
        /\ res'.tokens = NoTokens]_vars

\* C26: when first-time OAuth logins for one (provider, providerId) overlap,
\* at most one user record with that pair exists afterwards, and every login
\* that succeeds returns tokens for that record.
C26_ConcurrentOAuthOneRecord ==
  [][(res'.op = "oauth" /\ res'.status = "ok")
     => findIdsByProvider(users', res'.arg.provider, res'.arg.id)
          = {res'.uid}]_vars

\* C27: after a successful password update for a user (changePassword or
\* resetPassword) no reset token resolves to that user any more, so every
\* token issued for the user before the update is rejected and a token is
\* used successfully at most once.
C27_PasswordUpdateRevokesResetTokens ==
  [][(\/ res'.op = "resetPassword" /\ res'.status = "true"
      \/ res'.op = "changePassword" /\ res'.status = "ok")
     => \A t \in ResetTokens :
           res'.uid \notin findByPasswordResetToken(users', t, now')]_vars

\* C28: in every configuration the application starts with, a refresh token
\* issued by register, login, OAuth login or refreshToken verifies under
\* the secret refreshToken checks it with, and refreshToken accepts a held
\* refresh token as long as it is unexpired and its user exists and is
\* active.
C28_IssuedRefreshTokenAccepted ==
  [][/\ res'.tokens # NoTokens
        => JwtVerifyOk(res'.tokens[1].refreshToken, RefreshVerifySecret(env),
                       now)
     /\ (/\ res'.op = "refreshToken"
         /\ \E h \in held : h.refreshToken = res'.arg.token
         /\ now < res'.arg.token.body.exp
         /\ res'.arg.token.body.sub \in DOMAIN users
         /\ users[res'.arg.token.body.sub].isActive)
        => res'.status = "ok"]_vars

\* a refresh that succeeded, after the access token's lifetime, in a
\* configuration whose refresh secret is not the one of the default start
C28_Witness ==
  /\ res.op = "refreshToken"
  /\ res.status = "ok"
  /\ env.JWT_REFRESH_SECRET = "k1"
  /\ env.JWT_SECRET = "k2"
  /\ now = JwtExpiresIn
  /\ \E h \in held : h.refreshToken = res.arg.token

\* C29: refreshToken never accepts a token issued as an access token: in
\* every configuration that passes start-up validation such a request fails
\* with an unauthorized error.
C29_AccessTokenNotRefreshable ==
  [][(/\ res'.op = "refreshToken"
      /\ \E h \in held : h.accessToken = res'.arg.token)
     => res'.status = "Unauthorized"]_vars

\* the e-mail belongs to a stored account
Registered(db, email) == findIdsByEmail(db, toLowerCase(email)) # {}

====
